---- MODULE Spec2Model ----
(***************************************************************************)
(* State-machine model of the voice-chat components of evan1223/Chime_test *)
(*                                                                         *)
(*   ChimeDemo            src/src/ChimeDemo.tsx                            *)
(*   ChimeDemoBasic       src/unnamed/part_001, lines 11-138               *)
(*   ChimeWithTranscribe  src/unnamed/part_001, lines 150-554              *)
(*                                                                         *)
(* One behaviour follows one mounted component.  Every handler of the      *)
(* component (a continuation of setupChime after an await, an observer     *)
(* callback, a socket / recorder / reader callback, a click, the effect    *)
(* cleanup) is one action: handlers run to completion on the event loop.   *)
(* The React state variables hold the value the setters left; the refs     *)
(* hold `.current`.                                                        *)
(***************************************************************************)
EXTENDS Integers, Sequences, FiniteSets, TLC

VARIABLES
    component,          \* which of the three components is mounted
    setupPc,            \* the await setupChime is suspended at, or "done"
    response,           \* the Response fetch resolved with, until its body is read
    meetingSession,     \* useState<MeetingSession | null>
    isLoading,          \* useState(true)
    error,              \* useState<string | null>
    isConnected,        \* useState(false)
    microphoneDeviceId, \* useState<string | null>        (ChimeWithTranscribe)
    session,            \* the DefaultMeetingSession object setupChime built
    startTimer,         \* the setTimeout(..., 1000) of ChimeDemo is pending
    unmounted,          \* the effect cleanup has run
    transcripts,        \* useState<string[]>([])
    latestTranscript,   \* useState<string>('')
    isTranscribing,     \* useState(false)
    webSocket,          \* useRef<WebSocket | null>: index into sockets, 0 = null
    mediaRecorder,      \* useRef<MediaRecorder | null>: index into sockets, 0 = null
    audioChunks,        \* useRef<Blob[]>([])
    sockets,            \* every WebSocket startTranscription created, with the
                        \* capture its onopen started
    readers,            \* FileReaders whose readAsDataURL has not finished
    chunkCount,         \* number of dataavailable events fired so far
    dropped             \* chunks whose callback found the socket not OPEN

vars == << component, setupPc, response, meetingSession, isLoading, error, isConnected,
           microphoneDeviceId, session, startTimer, unmounted, transcripts,
           latestTranscript, isTranscribing, webSocket, mediaRecorder,
           audioChunks, sockets, readers, chunkCount, dropped >>

confVars  == << setupPc, response, meetingSession, isLoading, isConnected,
                microphoneDeviceId, session, startTimer >>
transVars == << transcripts, latestTranscript, isTranscribing, webSocket,
                mediaRecorder, audioChunks, sockets, readers, chunkCount,
                dropped >>

(***************************************************************************)
(* Bounds of the model                                                     *)
(***************************************************************************)
MaxSockets == 2          \* WebSockets created in one behaviour
MaxHistory == 2          \* final transcript events appended in one behaviour
MaxChunks  == 2          \* dataavailable events in one behaviour
MaxCaptureSockets == 1   \* WebSockets in a behaviour of a capped specification

NULL == "null"

Components == {"ChimeDemo", "ChimeDemoBasic", "ChimeWithTranscribe"}

\* err.message of what an SDK / browser call rejects with
ExternalMessages == {"", "failure"}

(***************************************************************************)
(* setupChime                                                              *)
(***************************************************************************)
\* The effect cleanup closes over the first render's `meetingSession`
\* (dependency list []), whose value is the useState initial value.
CleanupMeetingSession == NULL

\* `err.message || 'Unknown error'`
ErrorText(message) == IF message = "" THEN "Unknown error" ELSE message

NoSession == [created |-> FALSE, bound |-> FALSE,
              observed |-> FALSE, startCalls |-> 0, stopCalls |-> 0,
              status |-> "none"]

\* A variant of SetupCatch without the finally block
SetupCatchWithoutFinally(message) ==
    /\ error' = ErrorText(message)
    /\ UNCHANGED isLoading
    /\ setupPc' = "done"

\* catch (err) { setError(err.message || 'Unknown error') } finally { setIsLoading(false) }
SetupCatch(message) ==
    /\ error' = ErrorText(message)
    /\ isLoading' = FALSE
    /\ setupPc' = "done"

\* What the body of a response with a success status holds: both
\* descriptors (meetingResponse, attendeeResponse), or JSON that lacks one
Bodies == {"complete", "incomplete"}

\* A variant of FetchSettled that goes on to read the body whatever the
\* status of the response
FetchSettledIgnoringStatus ==
    /\ setupPc = "fetch"
    /\ \E outcome \in {"ok", "notOk", "reject"} :
         CASE outcome = "ok" ->
                /\ response' \in Bodies
                /\ setupPc' = "json"
                /\ UNCHANGED << error, isLoading >>
           [] outcome = "notOk" ->
                /\ response' = "notOk"
                /\ setupPc' = "json"
                /\ UNCHANGED << error, isLoading >>
           [] OTHER ->
                /\ UNCHANGED response
                /\ \E m \in ExternalMessages : SetupCatch(m)
    /\ UNCHANGED << component, meetingSession, isConnected, microphoneDeviceId,
                    session, startTimer, unmounted >>
    /\ UNCHANGED transVars

\* await fetch(...); if (!response.ok) throw new Error(`API failed with status ...`)
FetchSettled ==
    /\ setupPc = "fetch"
    /\ \E outcome \in {"ok", "notOk", "reject"} :
         CASE outcome = "ok" ->
                /\ response' \in Bodies
                /\ setupPc' = "json"
                /\ UNCHANGED << error, isLoading >>
           [] outcome = "notOk" ->
                /\ response' = "notOk"
                /\ SetupCatch("API failed with status")
           [] OTHER ->
                /\ UNCHANGED response
                /\ \E m \in ExternalMessages : SetupCatch(m)
    /\ UNCHANGED << component, meetingSession, isConnected, microphoneDeviceId,
                    session, startTimer, unmounted >>
    /\ UNCHANGED transVars

\* await response.json(); destructure; build the configuration and the
\* session; setMeetingSession(session); if (audioElement.current) await bind...
\* The <audio> element is rendered unconditionally, so audioElement.current
\* is set while the component is mounted and null after unmount.
\* Nothing between json() and the constructors looks at meetingResponse or
\* attendeeResponse, so a body that lacks one reaches the constructors, which
\* return or throw as the SDK decides.  Nothing reads the body afterwards.
JsonSettled ==
    /\ setupPc = "json"
    /\ response' = "none"
    /\ \E outcome \in {"ok", "reject", "ctorThrows"} :
         CASE outcome = "ok" ->
                /\ session' = [NoSession EXCEPT !.created = TRUE,
                                                 !.status = "created"]
                /\ meetingSession' = "session"
                /\ setupPc' = IF ~unmounted THEN "bind" ELSE "listIn"
                /\ UNCHANGED << error, isLoading >>
           [] OTHER ->
                /\ \E m \in ExternalMessages : SetupCatch(m)
                /\ UNCHANGED << session, meetingSession >>
    /\ UNCHANGED << component, isConnected, microphoneDeviceId, startTimer,
                    unmounted >>
    /\ UNCHANGED transVars

\* await session.audioVideo.bindAudioElement(audioElement.current)
BindSettled ==
    /\ setupPc = "bind"
    /\ \E outcome \in {"ok", "reject"} :
         IF outcome = "ok"
         THEN /\ session' = [session EXCEPT !.bound = TRUE]
              /\ setupPc' = "listIn"
              /\ UNCHANGED << error, isLoading >>
         ELSE /\ \E m \in ExternalMessages : SetupCatch(m)
              /\ UNCHANGED session
    /\ UNCHANGED << component, response, meetingSession, isConnected, microphoneDeviceId,
                    startTimer, unmounted >>
    /\ UNCHANGED transVars

\* A variant of ListInputSettled whose enumeration failure is not caught
\* apart from the rest of setup
ListInputSettledAborting ==
    /\ setupPc = "listIn"
    /\ \E outcome \in {"some", "none", "reject"} :
         IF outcome = "reject"
         THEN \E m \in ExternalMessages : SetupCatch(m)
         ELSE /\ setupPc' = IF outcome = "some" THEN "startIn" ELSE "listOut"
              /\ UNCHANGED << isLoading, error >>
    /\ UNCHANGED << component, response, meetingSession, isConnected,
                    microphoneDeviceId, session, startTimer, unmounted >>
    /\ UNCHANGED transVars

\* try { devices = await listAudioInputDevices(); if (devices.length > 0) ... }
\* catch (err) { console.warn(...) }
ListInputSettled ==
    /\ setupPc = "listIn"
    /\ \E outcome \in {"some", "none", "reject"} :
         setupPc' = IF outcome = "some" THEN "startIn" ELSE "listOut"
    /\ UNCHANGED << component, response, meetingSession, isLoading, error, isConnected,
                    microphoneDeviceId, session, startTimer, unmounted >>
    /\ UNCHANGED transVars

\* await startAudioInput(deviceId) / chooseAudioInputDevice(deviceId);
\* ChimeWithTranscribe then calls setMicrophoneDeviceId(deviceId)
StartInputSettled ==
    /\ setupPc = "startIn"
    /\ \E outcome \in {"ok", "reject"} :
         microphoneDeviceId' =
             IF outcome = "ok" /\ component = "ChimeWithTranscribe"
             THEN "mic" ELSE microphoneDeviceId
    /\ setupPc' = "listOut"
    /\ UNCHANGED << component, response, meetingSession, isLoading, error, isConnected,
                    session, startTimer, unmounted >>
    /\ UNCHANGED transVars

\* The synchronous tail of setupChime: addObserver, then start() (ChimeDemo:
\* subscribeToActiveSpeakerDetector, the stats patch and setTimeout(start,
\* 1000)), then finally { setIsLoading(false) }.  A start() that throws
\* lands in the catch of setupChime; startCalls counts the calls of start(),
\* those that throw included.
SetupTail ==
    \E outcome \in {"ok", "startThrows"} :
      /\ outcome = "startThrows" => component # "ChimeDemo"
      /\ IF outcome = "ok"
         THEN /\ session' = IF component = "ChimeDemo"
                            THEN [session EXCEPT !.observed = TRUE]
                            ELSE [session EXCEPT !.observed = TRUE,
                                                 !.startCalls = @ + 1,
                                                 !.status = "starting"]
              /\ startTimer' = (component = "ChimeDemo")
              /\ isLoading' = FALSE
              /\ setupPc' = "done"
              /\ UNCHANGED error
         ELSE /\ session' = [session EXCEPT !.observed = TRUE,
                                                 !.startCalls = @ + 1]
              /\ UNCHANGED startTimer
              /\ \E m \in ExternalMessages : SetupCatch(m)

\* try { devices = await listAudioOutputDevices(); if (devices.length > 0) ... }
\* catch (err) { console.warn(...) }; with no device the tail follows at once
ListOutputSettled ==
    /\ setupPc = "listOut"
    /\ \E outcome \in {"some", "none", "reject"} :
         IF outcome = "some"
         THEN /\ setupPc' = "chooseOut"
              /\ UNCHANGED << session, startTimer, isLoading, error >>
         ELSE SetupTail
    /\ UNCHANGED << component, response, meetingSession, isConnected, microphoneDeviceId,
                    unmounted >>
    /\ UNCHANGED transVars

\* await chooseAudioOutput(deviceId) settles either way; the tail follows
ChooseOutputSettled ==
    /\ setupPc = "chooseOut"
    /\ SetupTail
    /\ UNCHANGED << component, response, meetingSession, isConnected, microphoneDeviceId,
                    unmounted >>
    /\ UNCHANGED transVars

\* ChimeDemo: the setTimeout callback: try { session.audioVideo.start() }
\* catch (err) { setError('Failed to start audio session') }
DeferredStart ==
    /\ startTimer
    /\ startTimer' = FALSE
    /\ \E outcome \in {"ok", "throws"} :
         IF outcome = "ok"
         THEN /\ session' = [session EXCEPT !.startCalls = @ + 1,
                                !.status = IF @ = "created" THEN "starting" ELSE @]
              /\ UNCHANGED error
         ELSE /\ error' = "Failed to start audio session"
              /\ session' = [session EXCEPT !.startCalls = @ + 1]
    /\ UNCHANGED << component, response, setupPc, meetingSession, isLoading, isConnected,
                    microphoneDeviceId, unmounted >>
    /\ UNCHANGED transVars

(***************************************************************************)
(* Transcription (ChimeWithTranscribe)                                     *)
(***************************************************************************)
UNDEFINED == "undefined"
Texts == {"a", "b"}

\* A WebSocket made by startTranscription together with what its onopen
\* started: the getUserMedia call, the MediaStream, the MediaRecorder and the
\* messages the socket accepted for sending.
NewSocket == [readyState |-> "CONNECTING", capture |-> "none",
              stream |-> "none", recorder |-> "none", flush |-> FALSE,
              sent |-> << >>]

SocketIds == 1 .. Len(sockets)

\* mediaRecorder.current.stop(): state becomes inactive and a last
\* dataavailable is queued
StopRecorder(ss) ==
    IF mediaRecorder # 0 /\ ss[mediaRecorder].recorder # "inactive"
    THEN [ss EXCEPT ![mediaRecorder].recorder = "inactive",
                    ![mediaRecorder].flush = TRUE]
    ELSE ss

\* if (webSocket.current.readyState === WebSocket.OPEN) webSocket.current.close()
CloseSocket(ss) ==
    IF webSocket # 0 /\ ss[webSocket].readyState = "OPEN"
    THEN [ss EXCEPT ![webSocket].readyState = "CLOSING"]
    ELSE ss

stopTranscription ==
    /\ sockets' = CloseSocket(StopRecorder(sockets))
    /\ webSocket' = 0
    /\ isTranscribing' = FALSE
    /\ UNCHANGED << mediaRecorder, audioChunks, readers, chunkCount, dropped,
                    transcripts, latestTranscript >>

\* A variant of startTranscription that begins every session with an
\* empty history
startTranscriptionClearing ==
    IF microphoneDeviceId = NULL \/ ~isConnected
    THEN /\ error' = "Microphone or connection not available"
         /\ UNCHANGED transVars
    ELSE /\ Len(sockets) < MaxSockets
         /\ sockets' = Append(sockets, NewSocket)
         /\ webSocket' = Len(sockets) + 1
         /\ transcripts' = << >>
         /\ UNCHANGED << error, latestTranscript, isTranscribing,
                         mediaRecorder, audioChunks, readers, chunkCount,
                         dropped >>

\* A variant of the guard that looks at the connection only
StartRejectedIgnoringMicrophone == ~isConnected

\* The guard of startTranscription
StartRejected == microphoneDeviceId = NULL \/ ~isConnected

startTranscription ==
    IF StartRejected
    THEN /\ error' = "Microphone or connection not available"
         /\ UNCHANGED transVars
    ELSE /\ Len(sockets) < MaxSockets
         /\ sockets' = Append(sockets, NewSocket)
         /\ webSocket' = Len(sockets) + 1
         /\ UNCHANGED << error, transcripts, latestTranscript, isTranscribing,
                         mediaRecorder, audioChunks, readers, chunkCount,
                         dropped >>

\* onClick of the button that is rendered only while isConnected
toggleTranscription ==
    /\ component = "ChimeWithTranscribe"
    /\ ~unmounted
    /\ isConnected
    /\ IF isTranscribing
       THEN stopTranscription /\ UNCHANGED error
       ELSE startTranscription
    /\ UNCHANGED << component, unmounted >>
    /\ UNCHANGED confVars

\* ws.onopen: setIsTranscribing(true); startAudioCapture(ws) runs up to its
\* await of getUserMedia (its microphoneDeviceId is the one the guard of
\* startTranscription saw, so it is not null)
WsOpen(i) ==
    /\ sockets[i].readyState = "CONNECTING"
    /\ sockets' = [sockets EXCEPT ![i].readyState = "OPEN",
                                  ![i].capture = "pending"]
    /\ isTranscribing' = TRUE
    /\ UNCHANGED << component, unmounted, error, transcripts, latestTranscript,
                    webSocket, mediaRecorder, audioChunks, readers, chunkCount,
                    dropped >>
    /\ UNCHANGED confVars

\* A variant of WsError whose onerror also marks the conference disconnected
WsErrorDisconnecting(i) ==
    /\ sockets[i].readyState \in {"CONNECTING", "OPEN", "CLOSING"}
    /\ sockets' = [sockets EXCEPT ![i].readyState = "CLOSED"]
    /\ error' = "Transcription service error"
    /\ isTranscribing' = FALSE
    /\ isConnected' = FALSE
    /\ UNCHANGED << component, unmounted, transcripts, latestTranscript,
                    webSocket, mediaRecorder, audioChunks, readers, chunkCount,
                    dropped >>
    /\ UNCHANGED << setupPc, response, meetingSession, isLoading,
                    microphoneDeviceId, session, startTimer >>

\* The connection fails: readyState becomes CLOSED, then ws.onerror and
\* ws.onclose run in the same task
WsError(i) ==
    /\ sockets[i].readyState \in {"CONNECTING", "OPEN", "CLOSING"}
    /\ sockets' = [sockets EXCEPT ![i].readyState = "CLOSED"]
    /\ error' = "Transcription service error"
    /\ isTranscribing' = FALSE
    /\ UNCHANGED << component, unmounted, transcripts, latestTranscript,
                    webSocket, mediaRecorder, audioChunks, readers, chunkCount,
                    dropped >>
    /\ UNCHANGED confVars

\* The connection closes (the server closed it, or the closing handshake
\* that close() began has finished): ws.onclose
WsClose(i) ==
    /\ sockets[i].readyState \in {"OPEN", "CLOSING"}
    /\ sockets' = [sockets EXCEPT ![i].readyState = "CLOSED"]
    /\ isTranscribing' = FALSE
    /\ UNCHANGED << component, unmounted, error, transcripts, latestTranscript,
                    webSocket, mediaRecorder, audioChunks, readers, chunkCount,
                    dropped >>
    /\ UNCHANGED confVars

\* getUserMedia settles, and startAudioCapture runs to its end: on success
\* new MediaRecorder(stream, {mimeType: 'audio/webm'}), audioChunks.current
\* = [], recorder.start(250), mediaRecorder.current = recorder; a rejected
\* getUserMedia lands in the catch.  (The browser is taken to record
\* audio/webm, so the MediaRecorder constructor does not throw.)
GumSettled(i) ==
    /\ sockets[i].capture = "pending"
    /\ \E outcome \in {"ok", "reject"} :
         IF outcome = "ok"
         THEN /\ sockets' = [sockets EXCEPT ![i].capture = "started",
                                            ![i].stream = "live",
                                            ![i].recorder = "recording"]
              /\ audioChunks' = << >>
              /\ mediaRecorder' = i
              /\ UNCHANGED << error, isTranscribing >>
         ELSE /\ sockets' = [sockets EXCEPT ![i].capture = "failed"]
              /\ error' = "Error capturing audio for transcription"
              /\ isTranscribing' = FALSE
              /\ UNCHANGED << audioChunks, mediaRecorder >>
    /\ UNCHANGED << component, unmounted, transcripts, latestTranscript,
                    webSocket, readers, chunkCount, dropped >>
    /\ UNCHANGED confVars

\* new Blob(audioChunks.current, ...) after the push of a non-empty event.data
BlobOf(chunks, n, size) == IF size > 0 THEN Append(chunks, n) ELSE chunks

\* A variant of ondataavailable that reads and later sends the chunk whatever
\* the socket's state
DataAvailableBuffering(i, size) ==
    /\ sockets[i].recorder = "recording" \/ sockets[i].flush
    /\ chunkCount < MaxChunks
    /\ LET n    == chunkCount + 1
           blob == BlobOf(audioChunks, n, size)
       IN /\ chunkCount' = n
          /\ audioChunks' = << >>
          /\ readers' = readers \cup {[chunk |-> n, ws |-> i, blob |-> blob]}
          /\ dropped' = IF sockets[i].readyState = "OPEN" THEN dropped
                        ELSE dropped \cup {n}
    /\ sockets' = IF sockets[i].recorder = "recording" THEN sockets
                  ELSE [sockets EXCEPT ![i].flush = FALSE]
    /\ UNCHANGED << component, unmounted, error, transcripts, latestTranscript,
                    isTranscribing, webSocket, mediaRecorder >>
    /\ UNCHANGED confVars

\* recorder.ondataavailable, for the recorder of socket i: fired every 250 ms
\* while recording and once more after stop()
DataAvailable(i, size) ==
    /\ sockets[i].recorder = "recording" \/ sockets[i].flush
    /\ chunkCount < MaxChunks
    /\ LET n    == chunkCount + 1
           blob == BlobOf(audioChunks, n, size)
       IN /\ chunkCount' = n
          /\ audioChunks' = << >>
          /\ IF sockets[i].readyState = "OPEN"
             THEN /\ readers' = readers \cup {[chunk |-> n, ws |-> i, blob |-> blob]}
                  /\ UNCHANGED dropped
             ELSE /\ UNCHANGED readers
                  /\ dropped' = dropped \cup {n}
    /\ sockets' = IF sockets[i].recorder = "recording" THEN sockets
                  ELSE [sockets EXCEPT ![i].flush = FALSE]
    /\ UNCHANGED << component, unmounted, error, transcripts, latestTranscript,
                    isTranscribing, webSocket, mediaRecorder >>
    /\ UNCHANGED confVars

\* reader.readAsDataURL(blob) gives "data:audio/webm;base64,<payload>"
DataURL(blob) == << "data:audio/webm;base64", blob >>

\* (reader.result as string).split(',')[1]
Base64Data(url) == url[2]

\* reader.onloadend: ws.send(JSON.stringify({...})).  send() on a socket
\* that is CLOSING or CLOSED discards the data without throwing.
ReaderLoadEnd(r) ==
    /\ r \in readers
    /\ readers' = readers \ {r}
    /\ LET message == [action |-> "startTranscription",
                       audioData |-> Base64Data(DataURL(r.blob)),
                       languageCode |-> "en-US", chunk |-> r.chunk]
       IN IF sockets[r.ws].readyState = "OPEN"
          THEN sockets' = [sockets EXCEPT ![r.ws].sent = Append(@, message)]
          ELSE UNCHANGED sockets
    /\ UNCHANGED << component, unmounted, error, transcripts, latestTranscript,
                    isTranscribing, webSocket, mediaRecorder, audioChunks,
                    chunkCount, dropped >>
    /\ UNCHANGED confVars

\* Inbound frames: text that is not JSON, the JSON text null, or a JSON
\* object with the three fields read by onmessage (UNDEFINED = absent)
RawMessages ==
    { m \in [syntax : {"garbage", "null", "object"},
             type : {"transcript", "other", UNDEFINED},
             isPartial : {"true", "false", UNDEFINED},
             transcript : Texts \cup {UNDEFINED}] :
        /\ m.syntax # "object" =>
              m.type = UNDEFINED /\ m.isPartial = UNDEFINED /\ m.transcript = UNDEFINED
        /\ m.type = "transcript" => m.transcript # UNDEFINED
        /\ m.type = "other" => m.isPartial = "false" /\ m.transcript = "a"
        /\ m.type = UNDEFINED => m.isPartial = UNDEFINED /\ m.transcript # "b" }

\* JSON.parse(event.data) followed by the reads of data.type: a syntax error
\* throws, and so does reading a property of null
ParseThrows(raw) == raw.syntax \in {"garbage", "null"}

\* !data.isPartial
NotPartial(data) == data.isPartial \in {"false", UNDEFINED}

\* Variants of OnMessage with a plausible slip each: a history that drops a
\* repeated utterance, a history that takes partial results too, a handler
\* that does not look at data.type
OnMessageDeduplicating(history, current, raw) ==
    IF ~ParseThrows(raw) /\ raw.type = "transcript"
    THEN [transcripts |-> IF NotPartial(raw)
                             /\ (history = << >> \/ history[Len(history)] # raw.transcript)
                          THEN Append(history, raw.transcript)
                          ELSE history,
          latestTranscript |-> raw.transcript]
    ELSE [transcripts |-> history, latestTranscript |-> current]

OnMessageAppendingPartial(history, current, raw) ==
    IF ~ParseThrows(raw) /\ raw.type = "transcript"
    THEN [transcripts |-> Append(history, raw.transcript),
          latestTranscript |-> raw.transcript]
    ELSE [transcripts |-> history, latestTranscript |-> current]

OnMessageAnyType(history, current, raw) ==
    IF ~ParseThrows(raw) /\ raw.transcript # UNDEFINED
    THEN [transcripts |-> IF NotPartial(raw)
                          THEN Append(history, raw.transcript)
                          ELSE history,
          latestTranscript |-> raw.transcript]
    ELSE [transcripts |-> history, latestTranscript |-> current]

\* The body of ws.onmessage as a function of the two state variables it
\* sets: setTranscripts(prev => [...prev, data.transcript]) unless partial,
\* setLatestTranscript(data.transcript); the catch only logs
OnMessage(history, current, raw) ==
    IF ~ParseThrows(raw) /\ raw.type = "transcript"
    THEN [transcripts |-> IF NotPartial(raw)
                          THEN Append(history, raw.transcript)
                          ELSE history,
          latestTranscript |-> raw.transcript]
    ELSE [transcripts |-> history, latestTranscript |-> current]

\* ws.onmessage; the user agent delivers messages only while readyState is OPEN
WsMessage(i, raw) ==
    /\ sockets[i].readyState = "OPEN"
    /\ LET after == OnMessage(transcripts, latestTranscript, raw)
       IN /\ Len(after.transcripts) <= MaxHistory
          /\ transcripts' = after.transcripts
          /\ latestTranscript' = after.latestTranscript
    /\ UNCHANGED << component, unmounted, error, isTranscribing, webSocket,
                    mediaRecorder, audioChunks, sockets, readers, chunkCount,
                    dropped >>
    /\ UNCHANGED confVars

(***************************************************************************)
(* Conference observer callbacks and the effect cleanup                    *)
(***************************************************************************)
\* audioVideoDidStart (fires again after a reconnect)
audioVideoDidStart ==
    /\ session.observed
    /\ session.status \in {"starting", "connected"}
    /\ session' = [session EXCEPT !.status = "connected"]
    /\ isConnected' = TRUE
    /\ error' = NULL
    /\ UNCHANGED << component, response, setupPc, meetingSession, isLoading,
                    microphoneDeviceId, startTimer, unmounted >>
    /\ UNCHANGED transVars

\* audioVideoDidStop(sessionStatus): the session has ended
audioVideoDidStop(statusOK) ==
    /\ session.observed
    /\ session.status \in {"starting", "connected", "stopping"}
    /\ session' = [session EXCEPT !.status = "stopped"]
    /\ isConnected' = FALSE
    /\ error' = IF component = "ChimeDemo" /\ ~statusOK
                THEN "Connection error" ELSE error
    /\ IF component = "ChimeWithTranscribe"
       THEN stopTranscription
       ELSE UNCHANGED transVars
    /\ UNCHANGED << component, response, setupPc, meetingSession, isLoading,
                    microphoneDeviceId, startTimer, unmounted >>

\* meetingSession.audioVideo.stop() inside try/catch of the cleanup
StopSession(s) ==
    [s EXCEPT !.stopCalls = @ + 1,
              !.status = IF @ \in {"starting", "connected"} THEN "stopping" ELSE @]

\* The function returned by the effect, run at unmount
Cleanup ==
    /\ ~unmounted
    /\ unmounted' = TRUE
    /\ session' = IF CleanupMeetingSession # NULL THEN StopSession(session)
                  ELSE session
    /\ IF component = "ChimeWithTranscribe"
       THEN stopTranscription
       ELSE UNCHANGED transVars
    /\ UNCHANGED << component, response, setupPc, meetingSession, isLoading, error,
                    isConnected, microphoneDeviceId, startTimer >>

(***************************************************************************)
(* Specification                                                           *)
(***************************************************************************)
\* After the first render and the synchronous part of the effect:
\* setupChime is suspended at its fetch
Init ==
    /\ component \in Components
    /\ setupPc = "fetch"
    /\ meetingSession = NULL
    /\ isLoading = TRUE
    /\ error = NULL
    /\ isConnected = FALSE
    /\ microphoneDeviceId = NULL
    /\ session = NoSession
    /\ startTimer = FALSE
    /\ unmounted = FALSE
    /\ transcripts = << >>
    /\ latestTranscript = ""
    /\ response = "none"
    /\ isTranscribing = FALSE
    /\ webSocket = 0
    /\ mediaRecorder = 0
    /\ audioChunks = << >>
    /\ sockets = << >>
    /\ readers = {}
    /\ chunkCount = 0
    /\ dropped = {}

ConferenceNext ==
    \/ FetchSettled
    \/ JsonSettled
    \/ BindSettled
    \/ ListInputSettled
    \/ StartInputSettled
    \/ ListOutputSettled
    \/ ChooseOutputSettled
    \/ DeferredStart
    \/ audioVideoDidStart
    \/ \E statusOK \in BOOLEAN : audioVideoDidStop(statusOK)
    \/ Cleanup

LifecycleNext ==
    \/ toggleTranscription
    \/ \E i \in SocketIds : WsOpen(i)
    \/ \E i \in SocketIds : WsError(i)
    \/ \E i \in SocketIds : WsClose(i)
    \/ \E i \in SocketIds : GumSettled(i)

ChunkNext ==
    \/ \E i \in SocketIds, size \in {0, 1} : DataAvailable(i, size)
    \/ \E r \in readers : ReaderLoadEnd(r)

MessageNext ==
    \E i \in SocketIds, raw \in RawMessages : WsMessage(i, raw)

Next == ConferenceNext \/ LifecycleNext \/ ChunkNext \/ MessageNext

Spec == Init /\ [][Next]_vars

\* The aggregator's variables (transcripts, latestTranscript) are written by
\* WsMessage alone and read by no guard; the chunk variables (chunkCount,
\* audioChunks, readers, dropped, the sent and flush fields) are read by
\* DataAvailable and ReaderLoadEnd alone.  The specifications below leave
\* one or both of these independent parts idle.  SpecCapture follows the
\* chunks, and SpecMessages the messages, of the first MaxCaptureSockets
\* sessions.
CaptureLifecycleNext ==
    \/ toggleTranscription /\ Len(sockets') <= MaxCaptureSockets
    \/ \E i \in SocketIds : WsOpen(i)
    \/ \E i \in SocketIds : WsError(i)
    \/ \E i \in SocketIds : WsClose(i)
    \/ \E i \in SocketIds : GumSettled(i)

SpecLifecycle  == Init /\ [][ConferenceNext \/ LifecycleNext]_vars
SpecCapture    == Init /\ [][ConferenceNext \/ CaptureLifecycleNext \/ ChunkNext]_vars
SpecTranscript == Init /\ [][ConferenceNext \/ LifecycleNext \/ MessageNext]_vars
SpecMessages   == Init /\ [][ConferenceNext \/ CaptureLifecycleNext \/ MessageNext]_vars

\* Every promise setupChime awaits settles: each continuation of setupChime
\* runs once it is enabled
SetupFairness ==
    /\ WF_vars(FetchSettled)
    /\ WF_vars(JsonSettled)
    /\ WF_vars(BindSettled)
    /\ WF_vars(ListInputSettled)
    /\ WF_vars(StartInputSettled)
    /\ WF_vars(ListOutputSettled)
    /\ WF_vars(ChooseOutputSettled)

SpecSetupFair ==
    Init /\ [][ConferenceNext \/ CaptureLifecycleNext]_vars /\ SetupFairness

(***************************************************************************)
(* Properties                                                              *)
(***************************************************************************)
\* A step in which stopTranscription runs: the toggle while transcribing,
\* the audioVideoDidStop observer, the effect cleanup
StopCalled ==
    \/ isTranscribing /\ toggleTranscription
    \/ /\ component = "ChimeWithTranscribe"
       /\ (Cleanup \/ \E statusOK \in BOOLEAN : audioVideoDidStop(statusOK))

\* A step in which startTranscription passes its guard and makes a socket
StartCalled == Len(sockets') = Len(sockets) + 1

LiveSockets == { i \in SocketIds : sockets[i].readyState \in {"CONNECTING", "OPEN"} }
Recording   == { i \in SocketIds : sockets[i].recorder = "recording" }

\* C1: at most one transcription WebSocket is CONNECTING or OPEN at any
\* time, whatever toggles and socket events have happened.
C1_AtMostOneLiveSocket == Cardinality(LiveSockets) <= 1

\* C2: at most one MediaRecorder is recording at any time: no capture
\* begins while an earlier recorder still records.
C2_AtMostOneRecording == Cardinality(Recording) <= 1

\* C3: when the effect cleanup runs and setup has created a conference
\* session, the cleanup calls stop on it, and that is its only stop call.
C3_CleanupStopsSession ==
    [][(~unmounted /\ unmounted' /\ session.created) => session'.stopCalls = 1]_vars

\* C4: after stopTranscription has run on a started capture, the stream
\* that capture acquired has no live track.
C4_StopReleasesStream ==
    [][(StopCalled /\ mediaRecorder # 0 /\ sockets[mediaRecorder].stream = "live")
          => sockets'[mediaRecorder].stream # "live"]_vars

\* C5: stopTranscription called when no start is outstanding (never
\* started, or a stop has run since the last start: the tracked socket
\* reference is null) leaves isTranscribing false, the socket reference
\* null and no recorder recording.
C5_StopIdempotent ==
    [][(StopCalled /\ webSocket = 0)
          => /\ isTranscribing' = FALSE
             /\ webSocket' = 0
             /\ \A i \in 1 .. Len(sockets') : sockets'[i].recorder # "recording"]_vars

IsTranscript(raw) == ~ParseThrows(raw) /\ raw.type = "transcript"
IsFinal(raw)      == IsTranscript(raw) /\ raw.isPartial = "false"
IsPartial(raw)    == IsTranscript(raw) /\ raw.isPartial = "true"

\* C6: a final transcript event appends exactly its text to the end of the
\* history and makes it the current transcript; every change of the history
\* in any step is such an append, so earlier entries keep their places and
\* a repeated text is appended again.
C6_FinalAppends ==
    /\ [](\A raw \in RawMessages : IsFinal(raw) =>
             LET after == OnMessage(transcripts, latestTranscript, raw)
             IN  /\ after.transcripts = Append(transcripts, raw.transcript)
                 /\ after.latestTranscript = raw.transcript)
    /\ [][transcripts' # transcripts =>
             /\ Len(transcripts') = Len(transcripts) + 1
             /\ SubSeq(transcripts', 1, Len(transcripts)) = transcripts
             /\ latestTranscript' = transcripts'[Len(transcripts')]]_vars

\* C6 witness: two final events with the same text gave two entries
C6_Witness ==
    /\ Len(transcripts) >= 2
    /\ transcripts[1] = transcripts[2]
    /\ latestTranscript = transcripts[Len(transcripts)]

\* C7: a partial transcript event replaces the current transcript with its
\* text and leaves the history as it was.
C7_PartialReplacesCurrent ==
    \A raw \in RawMessages : IsPartial(raw) =>
        OnMessage(transcripts, latestTranscript, raw)
            = [transcripts |-> transcripts, latestTranscript |-> raw.transcript]

\* C7 witness: a partial text is current after a final one was recorded
C7_Witness ==
    /\ transcripts # << >>
    /\ latestTranscript # transcripts[Len(transcripts)]

\* C8: a message that does not parse, or parses to something whose type is
\* not "transcript", changes neither the current transcript nor the history;
\* and no step of onmessage changes a socket's state, the tracked socket or
\* isTranscribing.
C8_MalformedIgnored ==
    /\ [](\A raw \in RawMessages : ~IsTranscript(raw) =>
             OnMessage(transcripts, latestTranscript, raw)
                 = [transcripts |-> transcripts, latestTranscript |-> latestTranscript])
    /\ [][(transcripts' # transcripts \/ latestTranscript' # latestTranscript) =>
             /\ sockets' = sockets
             /\ webSocket' = webSocket
             /\ isTranscribing' = isTranscribing
             /\ error' = error]_vars

\* C8 witness: a socket is open for messages while transcribing, with a
\* history and a current transcript to lose
C8_Witness ==
    /\ isTranscribing
    /\ \E i \in SocketIds : sockets[i].readyState = "OPEN"
    /\ transcripts # << >>
    /\ latestTranscript # ""

\* C9 as stated: a start that follows a stop (the tracked socket is null
\* and a socket was made before) leaves an empty history.
C9_NewSessionEmptyHistory ==
    [][(StartCalled /\ webSocket = 0 /\ Len(sockets) > 0) => transcripts' = << >>]_vars

\* C9 as amended: starting and stopping transcription leave the history
\* unchanged (a step that changes the history is neither), so a session
\* started after a stop begins with the entries of the sessions before it.
C9_HistoryKeptAcrossSessions ==
    [][transcripts' # transcripts => ~(StartCalled \/ StopCalled)]_vars

\* C9 witness: socket 1 was closed by a stop, socket 2 is the new session
\* and the history of socket 1 is still there
C9_Witness ==
    /\ Len(sockets) = 2
    /\ sockets[1].readyState = "CLOSING"
    /\ sockets[2].readyState = "CONNECTING"
    /\ webSocket = 2
    /\ transcripts # << >>

SentChunks(i) == { sockets[i].sent[k].chunk : k \in 1 .. Len(sockets[i].sent) }

\* C10: a chunk whose callback finds the socket not OPEN is neither read
\* nor sent, then or later; the callback sets no error, changes no socket or
\* recorder and leaves isTranscribing alone, so the recorder goes on
\* producing chunks.
C10_ChunkDropped ==
    /\ [](\A n \in dropped :
             /\ \A r \in readers : r.chunk # n
             /\ \A i \in SocketIds : n \notin SentChunks(i))
    /\ [][dropped' # dropped =>
             /\ readers' = readers
             /\ error' = error
             /\ isTranscribing' = isTranscribing
             /\ \A i \in SocketIds :
                   /\ sockets'[i].sent = sockets[i].sent
                   /\ sockets'[i].recorder = sockets[i].recorder
                   /\ sockets'[i].readyState = sockets[i].readyState]_vars

\* C10 witness: a chunk was dropped, a later chunk was handled, and the
\* recorder is still recording
C10_Witness ==
    /\ \E n \in dropped : n < chunkCount
    /\ Recording # {}

\* C11: on every socket the chunks are sent in the order the recorder
\* produced them, each at most once, whatever the order in which the
\* FileReaders of the chunks finish.
C11_ChunksSentInOrder ==
    \A i \in SocketIds :
        \A k \in 1 .. Len(sockets[i].sent) - 1 :
            sockets[i].sent[k].chunk < sockets[i].sent[k + 1].chunk

\* C12: when the provisioning endpoint answers with a non-success status,
\* setup has ended with the error set and stays so: no session object was
\* created, start was never called or scheduled, and the component is not
\* connected.
C12_NotOkAbortsSetup ==
    response = "notOk" =>
        /\ setupPc = "done"
        /\ ~isLoading
        /\ error = "API failed with status"
        /\ session = NoSession
        /\ meetingSession = NULL
        /\ ~startTimer
        /\ ~isConnected

\* C12 witness: the endpoint answered with a non-success status and the
\* component was later unmounted
C12_Witness == response = "notOk" /\ setupPc = "done" /\ unmounted

\* C13: when the body of a successful response lacks a descriptor, the step
\* that reads it ends setup with an error, and no session is constructed.
C13_IncompleteBodyAborts ==
    [][(setupPc = "json" /\ response = "incomplete" /\ setupPc' # "json")
          => /\ setupPc' = "done"
             /\ error' # NULL
             /\ ~session'.created
             /\ meetingSession' = NULL]_vars

\* C14: a step of input enumeration or selection, whatever its outcome,
\* sets no error, ends nothing and leads to the output side; a step of
\* output enumeration or selection leads to the selection or to the tail of
\* setup, where the observer is registered and start is called or
\* scheduled; the only error that step can set is that of a start() that
\* threw.  An enumeration that fails or finds nothing leaves the microphone
\* id unset.
C14_DeviceFailureNotFatal ==
    [][/\ (setupPc \in {"listIn", "startIn"} /\ setupPc' # setupPc) =>
            /\ setupPc' \in {"startIn", "listOut"}
            /\ error' = error
            /\ isLoading' = isLoading
            /\ session' = session
            /\ (setupPc = "listIn" /\ setupPc' = "listOut")
                   => microphoneDeviceId' = NULL
       /\ (setupPc \in {"listOut", "chooseOut"} /\ setupPc' # setupPc) =>
            \/ /\ setupPc = "listOut" /\ setupPc' = "chooseOut"
               /\ error' = error
               /\ session' = session
            \/ /\ setupPc' = "done"
               /\ session'.observed
               /\ session'.startCalls = session.startCalls + 1 \/ startTimer'
               /\ error' # error =>
                     /\ session'.startCalls = session.startCalls + 1
                     /\ session'.status # "starting"]_vars

\* C14 witness: the input side was left unselected, and the session was
\* started and connected with no error
C14_Witness ==
    /\ component = "ChimeWithTranscribe"
    /\ microphoneDeviceId = NULL
    /\ session.observed
    /\ isConnected
    /\ error = NULL

\* C15: start has been called or scheduled only on a session whose audio
\* element was bound, and a setup that ended without the binding ended with
\* an error.
C15_StartOnlyAfterBind ==
    /\ (session.startCalls > 0 \/ startTimer) => session.bound
    /\ (setupPc = "done" /\ ~session.bound) => error # NULL

\* C16: a disconnected event with a non-OK status sets the error and sets
\* connected to false; one with OK status sets connected to false and
\* leaves the error as it was.
C16_DisconnectStatus ==
    [][/\ audioVideoDidStop(FALSE) =>
            (error' = "Connection error" /\ ~isConnected')
       /\ audioVideoDidStop(TRUE) =>
            (error' = error /\ ~isConnected')]_vars

\* A transcription session exists: a socket is connecting or open, or a
\* capture is starting or running
SessionExists ==
    \E i \in SocketIds :
        \/ sockets[i].readyState \in {"CONNECTING", "OPEN"}
        \/ sockets[i].capture = "pending"
        \/ sockets[i].recorder = "recording"

\* C17: when the conference disconnects while a transcription session
\* exists, the step leaves isTranscribing false, no recorder recording and
\* no socket connecting or open.
C17_DisconnectDestroysTranscription ==
    [][(/\ component = "ChimeWithTranscribe"
        /\ SessionExists
        /\ \E statusOK \in BOOLEAN : audioVideoDidStop(statusOK))
          => /\ ~isTranscribing'
             /\ \A i \in 1 .. Len(sockets') :
                   /\ sockets'[i].readyState \notin {"CONNECTING", "OPEN"}
                   /\ sockets'[i].recorder # "recording"]_vars

\* C18: no step of the transcription side (the toggle, a socket's open,
\* error or close, the outcome of getUserMedia, a message) changes
\* isConnected or the conference session: a step that changes either is
\* not one of them.
C18_TranscriptionLeavesConference ==
    [][(isConnected' # isConnected \/ session' # session)
          => ~(LifecycleNext \/ MessageNext)]_vars

\* C18 witness: a socket failed and a capture was refused while the
\* conference is connected and was never stopped
C18_Witness ==
    /\ isConnected
    /\ session.status = "connected"
    /\ session.stopCalls = 0
    /\ \E i \in SocketIds : sockets[i].readyState = "CLOSED"
    /\ \E i \in SocketIds : sockets[i].capture = "failed"

\* C19: a socket error or a refused getUserMedia sets the error and leaves
\* isTranscribing false; and while the session started last has a refused
\* capture and no new socket is made, isTranscribing does not become true.
C19_ErrorLeavesToggleInactive ==
    [][/\ (\/ \E i \in SocketIds : WsError(i)
           \/ \E i \in SocketIds : /\ sockets[i].capture = "pending"
                                    /\ sockets'[i].capture = "failed")
            => (error' # NULL /\ ~isTranscribing')
       /\ (/\ Len(sockets) > 0
           /\ sockets[Len(sockets)].capture = "failed"
           /\ Len(sockets') = Len(sockets))
            => ~isTranscribing']_vars

\* C20: a socket is made only in a step that starts connected with a known
\* microphone; a start that finds either missing sets the error and makes
\* no socket, starts no capture and leaves isTranscribing alone.
C20_StartRejectedWithoutConnection ==
    [][/\ Len(sockets') > Len(sockets)
            => (isConnected /\ microphoneDeviceId # NULL)
       /\ (toggleTranscription /\ ~isTranscribing /\ StartRejected)
            => /\ error' = "Microphone or connection not available"
               /\ sockets' = sockets
               /\ webSocket' = webSocket
               /\ mediaRecorder' = mediaRecorder
               /\ isTranscribing' = isTranscribing]_vars

\* C20 witness: a start was rejected for want of a microphone id
C20_Witness ==
    /\ error = "Microphone or connection not available"
    /\ microphoneDeviceId = NULL
    /\ sockets = << >>

\* C21: once the effect cleanup has run, no step creates a conference
\* session or calls start on one.
C21_TeardownCancelsSetup ==
    [][unmounted => /\ session'.created = session.created
                    /\ session'.startCalls = session.startCalls]_vars

\* A capture begins on socket i in this step: getUserMedia is called, or a
\* recorder starts recording
CaptureBegins(i) ==
    \/ sockets[i].capture # "pending" /\ sockets'[i].capture = "pending"
    \/ sockets[i].recorder # "recording" /\ sockets'[i].recorder = "recording"

\* C22: in a step that starts and ends with the tracked socket reference
\* null (a stop has run and no start since), no capture begins and
\* isTranscribing does not become true.
C22_NothingStartsAfterStop ==
    [][(webSocket = 0 /\ webSocket' = 0 /\ Len(sockets') = Len(sockets))
          => /\ isTranscribing' => isTranscribing
             /\ \A i \in SocketIds : ~CaptureBegins(i)]_vars

\* C23: while the component is mounted, isTranscribing is true only if the
\* tracked socket reference is non-null and refers to an OPEN socket and
\* the conference is connected.
C23_TranscribingImpliesOpenSocket ==
    (~unmounted /\ isTranscribing) =>
        /\ webSocket # 0
        /\ sockets[webSocket].readyState = "OPEN"
        /\ isConnected

\* C24: when every awaited call of setup settles, setup eventually has
\* ended with isLoading false for good, on every path; and no step sets
\* isLoading true.
C24_SetupEndsLoading ==
    /\ <>[](setupPc = "done" /\ ~isLoading)
    /\ [][isLoading' => isLoading]_vars

\* C24 witness: setup has ended on the path of a rejected binding, with
\* isLoading false
C24_Witness ==
    /\ setupPc = "done"
    /\ ~isLoading
    /\ session.created
    /\ ~session.bound
    /\ ~unmounted
    /\ error # NULL

====
